---- MODULE Spec2Model ----
(***************************************************************************)
(* Model of ADS1115.py: the Device driver of the ADS1115 four-channel ADC  *)
(* (presence check, four-channel single-shot read) over an smbus2 bus.     *)
(*                                                                         *)
(* The I2C bus is the environment: every SMBus call either completes, or   *)
(* raises OSError (no-acknowledge, missing bus device), or raises another   *)
(* exception.  `log` records the bus calls of the current driver call in    *)
(* the order the code issues them.                                          *)
(***************************************************************************)
EXTENDS Integers, Sequences, FiniteSets, TLC

(* ------------------------------ bounds --------------------------------- *)
MaxAddrOffset == 1
MaxChannel == 1
MaxResolution == 2

(* ------------------- module constants, ADS1115.py:6-21 ----------------- *)
ADS1115_CONFIG_OS_SINGLE == 32768        \* 0x8000
ADS1115_CONFIG_MUX_SINGLE_0 == 16384     \* 0x4000
ADS1115_CONFIG_MUX_SINGLE_1 == 20480     \* 0x5000
ADS1115_CONFIG_MUX_SINGLE_2 == 24576     \* 0x6000
ADS1115_CONFIG_MUX_SINGLE_3 == 28672     \* 0x7000
ADS1115_CONFIG_PGA_4_096V == 512         \* 0x0200
ADS1115_CONFIG_PGA_2_048V == 256         \* 0x0100 (commented out in the source)
ADS1115_CONFIG_MODE_SINGLE == 256        \* 0x0100
ADS1115_CONFIG_DR_128SPS == 128          \* 0x0080
ADS1115_CONFIG_CMODE_TRAD == 0           \* 0x0000
ADS1115_CONFIG_CPOL_ACTVLOW == 0         \* 0x0000
ADS1115_CONFIG_CLATCH_NONLAT == 0        \* 0x0000
ADS1115_CONFIG_CQUE_NONE == 3            \* 0x0003
ADS1115_POINTER_CONVERT == 0             \* 0x00
ADS1115_POINTER_CONFIG == 1              \* 0x01

DefaultAddress == 72                     \* 0x48

(* A module-level name that has not been assigned (NameError on use).      *)
Undefined == -1
(* Filler for the fields a bus call does not have.                         *)
NoVal == -2

Addresses == DefaultAddress .. (DefaultAddress + MaxAddrOffset)
Channels == 0 .. MaxChannel
Resolutions == 1 .. MaxResolution
Bytes == 0 .. 255

(* Conversion-register contents the device answers with in a read cycle:   *)
(* 0x0FFF, 0x7FFF, 0x8000.                                                 *)
SampleBytes == { <<15, 255>>, <<127, 255>>, <<128, 0>> }

(* Outcomes of one smbus2 call.                                            *)
Outcomes == {"ok", "OSError", "Other"}

(* ----------------------- Python integer operators ---------------------- *)
RECURSIVE BitOr(_, _)
(* a | b on non-negative integers.                                         *)
BitOr(a, b) ==
    IF a = 0 THEN b
    ELSE IF b = 0 THEN a
    ELSE (IF (a % 2 = 1) \/ (b % 2 = 1) THEN 1 ELSE 0)
         + 2 * BitOr(a \div 2, b \div 2)

RECURSIVE BitAnd(_, _)
(* a & b on non-negative integers.                                         *)
BitAnd(a, b) ==
    IF a = 0 \/ b = 0 THEN 0
    ELSE (IF (a % 2 = 1) /\ (b % 2 = 1) THEN 1 ELSE 0)
         + 2 * BitAnd(a \div 2, b \div 2)

RECURSIVE ShiftLeft(_, _)
(* a << n.                                                                 *)
ShiftLeft(a, n) == IF n = 0 THEN a ELSE ShiftLeft(2 * a, n - 1)

RECURSIVE ShiftRight(_, _)
(* a >> n on non-negative integers.                                        *)
ShiftRight(a, n) == IF n = 0 THEN a ELSE ShiftRight(a \div 2, n - 1)

(* ------------------- read_channel, ADS1115.py:55-88 -------------------- *)
(* The arguments of the four read_channel calls, in call order.            *)
MuxCalls ==
    << ADS1115_CONFIG_MUX_SINGLE_0, ADS1115_CONFIG_MUX_SINGLE_1,
       ADS1115_CONFIG_MUX_SINGLE_2, ADS1115_CONFIG_MUX_SINGLE_3 >>

ConfigGain2048(mux_config) ==
    BitOr(ADS1115_CONFIG_OS_SINGLE,
    BitOr(mux_config,
    BitOr(ADS1115_CONFIG_PGA_2_048V,
    BitOr(ADS1115_CONFIG_MODE_SINGLE,
    BitOr(ADS1115_CONFIG_DR_128SPS,
    BitOr(ADS1115_CONFIG_CMODE_TRAD,
    BitOr(ADS1115_CONFIG_CPOL_ACTVLOW,
    BitOr(ADS1115_CONFIG_CLATCH_NONLAT,
          ADS1115_CONFIG_CQUE_NONE))))))))

ConfigNoComparatorDisable(mux_config) ==
    BitOr(ADS1115_CONFIG_OS_SINGLE,
    BitOr(mux_config,
    BitOr(ADS1115_CONFIG_PGA_4_096V,
    BitOr(ADS1115_CONFIG_MODE_SINGLE,
    BitOr(ADS1115_CONFIG_DR_128SPS,
    BitOr(ADS1115_CONFIG_CMODE_TRAD,
    BitOr(ADS1115_CONFIG_CPOL_ACTVLOW,
          ADS1115_CONFIG_CLATCH_NONLAT)))))))

(* config = OS_SINGLE | mux_config | PGA | MODE | DR | CMODE | CPOL |     *)
(*          CLATCH | CQUE                                                  *)
Config(mux_config) ==
    BitOr(ADS1115_CONFIG_OS_SINGLE,
    BitOr(mux_config,
    BitOr(ADS1115_CONFIG_PGA_4_096V,
    BitOr(ADS1115_CONFIG_MODE_SINGLE,
    BitOr(ADS1115_CONFIG_DR_128SPS,
    BitOr(ADS1115_CONFIG_CMODE_TRAD,
    BitOr(ADS1115_CONFIG_CPOL_ACTVLOW,
    BitOr(ADS1115_CONFIG_CLATCH_NONLAT,
          ADS1115_CONFIG_CQUE_NONE))))))))

ConfigBytesLowFirst(config) ==
    << BitAnd(config, 255), BitAnd(ShiftRight(config, 8), 255) >>

(* [(config >> 8) & 0xFF, config & 0xFF]                                   *)
ConfigBytes(config) ==
    << BitAnd(ShiftRight(config, 8), 255), BitAnd(config, 255) >>

(* value = (result[0] << 8) | result[1]                                    *)
RawValue(res) == BitOr(ShiftLeft(res[1], 8), res[2])

SignedValueOffByOne(v) == IF v > 32768 THEN v - 65536 ELSE v

(* if value > 32767: value -= 65536                                        *)
SignedValue(v) == IF v > 32767 THEN v - 65536 ELSE v

VoltageRounded(v, resolution) == ((v * resolution) \div 2) * 2

(* voltage = value * resolution                                            *)
Voltage(v, resolution) == v * resolution

PrependVoltage(vs, v) == <<v>> \o vs

(* voltages.append(...)                                                    *)
AppendVoltage(vs, v) == Append(vs, v)

(* ------------------------------- state --------------------------------- *)
VARIABLES
    dev,        \* the Device instance: self.address, self.resolution, self.i2c_channel
    glob,       \* the module-level names address, resolution, i2c_channel
    op,         \* the method the caller invoked: "none", "check" or "read"
    pc,         \* position inside the invoked method
    probe,      \* parameters of _check_if_device_exists
    exists,     \* what _check_if_device_exists did: "none", "True", "False", "raise"
    args,       \* parameters of _read_logical_port
    k,          \* index of the read_channel call in progress (0..3)
    voltages,   \* the list `voltages`
    rx,         \* `result`, the two bytes read from the conversion register
    value,      \* `value` after the sign adjustment
    log,        \* the bus calls issued by the current invocation, in order
    result,     \* how the invoked method ended
    scan        \* search_i2c_memory: i2c_channel, address, available_devices

vars == << dev, glob, op, pc, probe, exists, args, k, voltages, rx, value,
           log, result, scan >>

(* One bus call and its outcome.                                           *)
Txn(o, ch, addr, reg, data, res) ==
    [op |-> o, ch |-> ch, addr |-> addr, reg |-> reg, data |-> data, res |-> res]

NoResult ==
    [kind |-> "none", exc |-> "", cause |-> "", list |-> <<>>, flag |-> FALSE]
Raise(exc, cause) ==
    [kind |-> "raise", exc |-> exc, cause |-> cause, list |-> <<>>, flag |-> FALSE]
ReturnList(l) ==
    [kind |-> "return", exc |-> "", cause |-> "", list |-> l, flag |-> FALSE]
ReturnBool(b) ==
    [kind |-> "return", exc |-> "", cause |-> "", list |-> <<>>, flag |-> b]

NoProbe == [i2c_channel |-> NoVal, address |-> NoVal]
NoArgs == [address |-> NoVal, resolution |-> NoVal, i2c_channel |-> NoVal]
NoScan == [i2c_channel |-> NoVal, address |-> NoVal, available_devices |-> <<>>]

(* Device.__init__ has run; the module-level names are unassigned (module  *)
(* imported) or hold any values (assigned by the script or the importer).  *)
Init ==
    /\ dev \in [address : Addresses, resolution : Resolutions,
                i2c_channel : Channels]
    /\ glob \in [address : Addresses \cup {Undefined},
                 resolution : Resolutions \cup {Undefined},
                 i2c_channel : Channels \cup {Undefined}]
    /\ op = "none"
    /\ pc = "idle"
    /\ probe = NoProbe
    /\ exists = "none"
    /\ args = NoArgs
    /\ k = 0
    /\ voltages = <<>>
    /\ rx = <<>>
    /\ value = 0
    /\ log = <<>>
    /\ result = NoResult
    /\ scan = NoScan

EnterStoresParams(method, params) ==
    /\ op' = method
    /\ pc' = "probe_open"
    /\ probe' = params
    /\ exists' = "none"
    /\ args' = NoArgs
    /\ k' = 0
    /\ voltages' = <<>>
    /\ rx' = <<>>
    /\ value' = 0
    /\ log' = <<>>
    /\ result' = NoResult
    /\ dev' = [dev EXCEPT !.address = params.address,
                          !.i2c_channel = params.i2c_channel]
    /\ UNCHANGED << scan, glob >>

(* The caller starts a new invocation: the locals and the log start empty. *)
Enter(method, params) ==
    /\ op' = method
    /\ pc' = "probe_open"
    /\ probe' = params
    /\ exists' = "none"
    /\ args' = NoArgs
    /\ k' = 0
    /\ voltages' = <<>>
    /\ rx' = <<>>
    /\ value' = 0
    /\ log' = <<>>
    /\ result' = NoResult
    /\ UNCHANGED << scan, dev, glob >>

(* ---------------- Device.read, ADS1115.py:127-133 ---------------------- *)
(* read() calls self._check_if_device_exists(self.i2c_channel, self.address) *)
CallRead ==
    /\ pc \in {"idle", "done"}
    /\ Enter("read", [i2c_channel |-> dev.i2c_channel, address |-> dev.address])

(* The rest of read() once the presence check returned `found`: the call   *)
(* of _read_logical_port(address, resolution, i2c_channel) or the raise of *)
(* AdsNotFound, both evaluating module-level names, both inside            *)
(* `except Exception as e: raise AdsReadException(e)`.                     *)
ReadContinue(found) ==
    IF found
    THEN IF Undefined \in {glob.address, glob.resolution, glob.i2c_channel}
         THEN /\ pc' = "done"
              /\ result' = Raise("AdsReadException", "NameError")
              /\ UNCHANGED args
         ELSE /\ pc' = "port_open"
              /\ args' = [address |-> glob.address,
                          resolution |-> glob.resolution,
                          i2c_channel |-> glob.i2c_channel]
              /\ UNCHANGED result
    ELSE /\ pc' = "done"
         /\ result' = Raise("AdsReadException",
                            IF Undefined \in {glob.i2c_channel, glob.address}
                            THEN "NameError" ELSE "AdsNotFound")
         /\ UNCHANGED args

(* ------- Device._check_if_device_exists, ADS1115.py:104-125 ------------ *)
(* A direct call of the presence check with any parameters.                *)
CallCheck ==
    /\ pc \in {"idle", "done"}
    /\ \E ch \in Channels, a \in Addresses :
        Enter("check", [i2c_channel |-> ch, address |-> a])

ProbeOutcomeNoExcept(o) ==
    CASE o = "ok" -> "True"
      [] o = "OSError" -> "raise"
      [] OTHER -> "raise"

(* try: ...; return True / except OSError: return False; any other         *)
(* exception leaves the method.                                            *)
ProbeOutcome(o) ==
    CASE o = "ok" -> "True"
      [] o = "OSError" -> "False"
      [] OTHER -> "raise"

(* The presence check ends with r; control is back in its caller.          *)
ProbeFinish(r) ==
    /\ exists' = r
    /\ IF op = "check"
       THEN /\ pc' = "done"
            /\ result' = IF r = "raise" THEN Raise("Exception", "")
                         ELSE ReturnBool(r = "True")
            /\ UNCHANGED args
       ELSE IF r = "raise"
            THEN /\ pc' = "done"
                 /\ result' = Raise("AdsReadException", "Exception")
                 /\ UNCHANGED args
            ELSE ReadContinue(r = "True")

(* bus = smbus.SMBus(i2c_channel)                                          *)
ProbeOpen ==
    /\ pc = "probe_open"
    /\ \E o \in Outcomes :
        /\ log' = Append(log, Txn("open", probe.i2c_channel, NoVal, NoVal, <<>>, o))
        /\ IF o = "ok"
           THEN /\ pc' = "probe_quick"
                /\ UNCHANGED << exists, args, result >>
           ELSE ProbeFinish(ProbeOutcome(o))
    /\ UNCHANGED << scan, dev, glob, op, probe, k, voltages, rx, value >>

(* bus.write_quick(address); return True                                   *)
ProbeQuick ==
    /\ pc = "probe_quick"
    /\ \E o \in Outcomes :
        /\ log' = Append(log, Txn("quick", probe.i2c_channel, probe.address,
                                  NoVal, <<>>, o))
        /\ ProbeFinish(ProbeOutcome(o))
    /\ UNCHANGED << scan, dev, glob, op, probe, k, voltages, rx, value >>

(* --------- Device._read_logical_port, ADS1115.py:37-102 ---------------- *)
PortFailContinue ==
    /\ pc' = "ch_sleep"
    /\ UNCHANGED result

(* except Exception as error: print(...); return []                        *)
PortFail ==
    /\ pc' = "done"
    /\ result' = ReturnList(<<>>)

(* bus = smbus.SMBus(i2c_channel); voltages = []                           *)
PortOpen ==
    /\ pc = "port_open"
    /\ \E o \in Outcomes :
        /\ log' = Append(log, Txn("open", args.i2c_channel, NoVal, NoVal, <<>>, o))
        /\ IF o = "ok"
           THEN /\ pc' = "ch_write"
                /\ UNCHANGED result
           ELSE PortFail
    /\ k' = 0
    /\ voltages' = <<>>
    /\ UNCHANGED << scan, dev, glob, op, probe, exists, args, rx, value >>

(* bus.write_i2c_block_data(address, ADS1115_POINTER_CONFIG, [...])        *)
ChWrite ==
    /\ pc = "ch_write"
    /\ \E o \in Outcomes :
        /\ log' = Append(log, Txn("write", args.i2c_channel, args.address,
                                  ADS1115_POINTER_CONFIG,
                                  ConfigBytes(Config(MuxCalls[k + 1])), o))
        /\ IF o = "ok"
           THEN /\ pc' = "ch_sleep"
                /\ UNCHANGED result
           ELSE PortFail
    /\ UNCHANGED << scan, dev, glob, op, probe, exists, args, k, voltages, rx, value >>

(* time.sleep(0.1)                                                         *)
ChSleep ==
    /\ pc = "ch_sleep"
    /\ log' = Append(log, Txn("sleep", NoVal, NoVal, NoVal, <<>>, "ok"))
    /\ pc' = "ch_read"
    /\ UNCHANGED << scan, dev, glob, op, probe, exists, args, k, voltages, rx, value,
                    result >>

(* result = bus.read_i2c_block_data(address, ADS1115_POINTER_CONVERT, 2)   *)
ChRead ==
    /\ pc = "ch_read"
    /\ \/ \E d \in SampleBytes :
            /\ log' = Append(log, Txn("read", args.i2c_channel, args.address,
                                      ADS1115_POINTER_CONVERT, d, "ok"))
            /\ rx' = d
            /\ pc' = "ch_decode"
            /\ UNCHANGED result
       \/ \E o \in Outcomes \ {"ok"} :
            /\ log' = Append(log, Txn("read", args.i2c_channel, args.address,
                                      ADS1115_POINTER_CONVERT, <<>>, o))
            /\ PortFail
            /\ UNCHANGED rx
    /\ UNCHANGED << scan, dev, glob, op, probe, exists, args, k, voltages, value >>

(* The decoding and scaling of read_channel, the append of its result, and *)
(* the next read_channel call or `return voltages`.                        *)
ChDecode ==
    /\ pc = "ch_decode"
    /\ value' = SignedValue(RawValue(rx))
    /\ voltages' = AppendVoltage(voltages, Voltage(value', args.resolution))
    /\ IF k + 1 = Len(MuxCalls)
       THEN /\ pc' = "done"
            /\ result' = ReturnList(voltages')
            /\ UNCHANGED k
       ELSE /\ pc' = "ch_write"
            /\ k' = k + 1
            /\ UNCHANGED result
    /\ UNCHANGED << scan, dev, glob, op, probe, exists, args, rx, log >>

Next ==
    \/ CallRead
    \/ CallCheck
    \/ ProbeOpen
    \/ ProbeQuick
    \/ PortOpen
    \/ ChWrite
    \/ ChSleep
    \/ ChRead
    \/ ChDecode

Spec == Init /\ [][Next]_vars

(* ------------- decoding of every conversion-register value ------------ *)
(* read_channel has been entered for channel 0 and the device has answered *)
(* the conversion read with any two bytes.                                 *)
InitDecode ==
    /\ dev = [address |-> DefaultAddress, resolution |-> 1, i2c_channel |-> 0]
    /\ glob = dev
    /\ op = "read"
    /\ pc = "ch_decode"
    /\ probe = [i2c_channel |-> dev.i2c_channel, address |-> dev.address]
    /\ exists = "True"
    /\ args = glob
    /\ k = 0
    /\ voltages = <<>>
    /\ rx \in Bytes \X Bytes
    /\ value = 0
    /\ log = << Txn("open", 0, NoVal, NoVal, <<>>, "ok"),
                Txn("quick", 0, DefaultAddress, NoVal, <<>>, "ok"),
                Txn("open", 0, NoVal, NoVal, <<>>, "ok"),
                Txn("write", 0, DefaultAddress, ADS1115_POINTER_CONFIG,
                    ConfigBytes(Config(MuxCalls[1])), "ok"),
                Txn("sleep", NoVal, NoVal, NoVal, <<>>, "ok"),
                Txn("read", 0, DefaultAddress, ADS1115_POINTER_CONVERT, rx, "ok") >>
    /\ result = NoResult
    /\ scan = NoScan

NextDecode == ChDecode

SpecDecode == InitDecode /\ [][NextDecode]_vars

(* -------------- search_i2c_memory, ADS1115.py:136-157 ------------------ *)
(* range(0x03, 0x78)                                                       *)
FirstAddress == 3
StopAddress == 120

(* The value None.                                                         *)
ReturnNone ==
    [kind |-> "return_None", exc |-> "", cause |-> "", list |-> <<>>, flag |-> FALSE]

(* The addresses where a device may acknowledge or the probe may fail in   *)
(* another way; at every other address the probe is not acknowledged.      *)
ScanCandidates == Addresses \cup {FirstAddress, StopAddress - 1}

QuickOutcomes(a) == IF a \in ScanCandidates THEN Outcomes ELSE {"OSError"}

(* The module-level function is called before any Device is used.          *)
InitScan ==
    /\ dev = [address |-> DefaultAddress, resolution |-> 1, i2c_channel |-> 0]
    /\ glob = dev
    /\ op = "none"
    /\ pc = "idle"
    /\ probe = NoProbe
    /\ exists = "none"
    /\ args = NoArgs
    /\ k = 0
    /\ voltages = <<>>
    /\ rx = <<>>
    /\ value = 0
    /\ log = <<>>
    /\ result = NoResult
    /\ scan = NoScan

CallScan ==
    /\ pc \in {"idle", "done"}
    /\ \E ch \in Channels :
          scan' = [i2c_channel |-> ch, address |-> NoVal,
                   available_devices |-> <<>>]
    /\ op' = "scan"
    /\ pc' = "scan_open"
    /\ log' = <<>>
    /\ result' = NoResult
    /\ UNCHANGED << dev, glob, probe, exists, args, k, voltages, rx, value >>

(* except Exception as error: raise AdsReadException(...)                  *)
ScanFail(o) ==
    /\ pc' = "done"
    /\ result' = Raise("AdsReadException", o)

(* bus = smbus.SMBus(i2c_channel); available_devices = []; the loop starts *)
ScanOpen ==
    /\ pc = "scan_open"
    /\ \E o \in Outcomes :
        /\ log' = Append(log, Txn("open", scan.i2c_channel, NoVal, NoVal, <<>>, o))
        /\ IF o = "ok"
           THEN /\ pc' = "scan_probe"
                /\ scan' = [scan EXCEPT !.address = FirstAddress,
                                        !.available_devices = <<>>]
                /\ UNCHANGED result
           ELSE /\ ScanFail(o)
                /\ UNCHANGED scan
    /\ UNCHANGED << dev, glob, op, probe, exists, args, k, voltages, rx, value >>

ScanPrepend(l, a) == <<a>> \o l

(* available_devices.append(address)                                       *)
ScanAppend(l, a) == Append(l, a)

(* One iteration of the loop: bus.write_quick(address), the append or the  *)
(* `except OSError: pass`, and the step to the next address of the range.  *)
ScanProbe ==
    /\ pc = "scan_probe"
    /\ \E o \in QuickOutcomes(scan.address) :
        /\ log' = Append(log, Txn("quick", scan.i2c_channel, scan.address,
                                  NoVal, <<>>, o))
        /\ IF o \in {"ok", "OSError"}
           THEN /\ scan' = [scan EXCEPT
                      !.available_devices =
                          IF o = "ok" THEN ScanAppend(@, scan.address) ELSE @,
                      !.address =
                          IF scan.address + 1 < StopAddress THEN @ + 1 ELSE @]
                /\ pc' = IF scan.address + 1 < StopAddress
                         THEN "scan_probe" ELSE "scan_return"
                /\ UNCHANGED result
           ELSE /\ ScanFail(o)
                /\ UNCHANGED scan
    /\ UNCHANGED << dev, glob, op, probe, exists, args, k, voltages, rx, value >>

ScanResultAlwaysList(available_devices) == ReturnList(available_devices)

(* if available_devices: return available_devices / else: return None     *)
ScanResult(available_devices) ==
    IF available_devices # <<>> THEN ReturnList(available_devices)
    ELSE ReturnNone

ScanReturn ==
    /\ pc = "scan_return"
    /\ pc' = "done"
    /\ result' = ScanResult(scan.available_devices)
    /\ UNCHANGED << dev, glob, op, probe, exists, args, k, voltages, rx, value,
                    log, scan >>

NextScan ==
    \/ CallScan
    \/ ScanOpen
    \/ ScanProbe
    \/ ScanReturn

SpecScan == InitScan /\ [][NextScan]_vars

(* ============================ properties =============================== *)
(* Indices of the log entries of one kind.                                 *)
Entries(kind) == { i \in DOMAIN log : log[i].op = kind }
RegisterEntries == Entries("write") \cup Entries("read")
FailedRegisterEntries == { i \in RegisterEntries : log[i].res # "ok" }

(* The two's-complement reading of a big-endian byte pair, by arithmetic.  *)
Decoded(d) ==
    LET v == d[1] * 256 + d[2]
    IN  IF v < 32768 THEN v ELSE v - 65536

(* The configuration word of channel c as the register map gives it.       *)
ExpectedWord(c) == 32768 + (16384 + c * 4096) + 512 + 256 + 128 + 3

(* The 16-bit word a configuration write carries, first byte high.         *)
WordOf(i) == log[i].data[1] * 256 + log[i].data[2]

(* The number of configuration writes issued before log entry i.           *)
ChannelOf(i) == Cardinality({ j \in Entries("write") : j < i })

ReadDone == op = "read" /\ pc = "done"

(* C1: when the presence probe of read() is not acknowledged, read() fails *)
(* with AdsNotFound, an error distinct from the read failure               *)
(* AdsReadException, and issues no register write and no register read.    *)
C1_NotFoundIsDistinctError ==
    (ReadDone /\ \E i \in Entries("quick") : log[i].res = "OSError")
        => /\ result.kind = "raise"
           /\ result.exc = "AdsNotFound"
           /\ RegisterEntries = {}

(* C2: when the probe succeeds and a configuration write or a conversion   *)
(* read fails on the bus, read() ends in AdsReadException and does not     *)
(* return a list.                                                          *)
C2_TransportFailureRaises ==
    (ReadDone /\ exists = "True" /\ FailedRegisterEntries # {})
        => /\ result.kind = "raise"
           /\ result.exc = "AdsReadException"

(* C3: every bus call issued by read() uses the bus channel and address of *)
(* the instance, and the returned voltages are the decoded samples times   *)
(* the resolution of the instance.                                         *)
C3_ReadUsesInstanceFields ==
    op = "read" =>
        /\ \A i \in DOMAIN log :
              /\ log[i].op \in {"open", "quick", "write", "read"}
                    => log[i].ch = dev.i2c_channel
              /\ log[i].op \in {"quick", "write", "read"}
                    => log[i].addr = dev.address
        /\ \A j \in DOMAIN voltages :
              \E i \in Entries("read") :
                  /\ ChannelOf(i) = j
                  /\ voltages[j] = Decoded(log[i].data) * dev.resolution

(* The bus calls of _read_logical_port: the log after the presence check.  *)
PortLog == SubSeq(log, 3, Len(log))

(* C4: in a read cycle without a failed bus call, after the bus is opened  *)
(* the calls are, for channel 0, 1, 2, 3 in this order: the write of the   *)
(* configuration word to pointer 0x01, high byte first, then the settling  *)
(* delay, then the 2-byte read at pointer 0x00; a cycle that returns has   *)
(* issued all twelve.                                                      *)
C4_TransactionOrder ==
    (op = "read" /\ \A i \in DOMAIN log : log[i].res = "ok") =>
        /\ \A i \in DOMAIN PortLog :
              LET e == PortLog[i]
                  c == (i - 2) \div 3
              IN  IF i = 1 THEN e.op = "open"
                  ELSE CASE (i - 2) % 3 = 0 ->
                              /\ e.op = "write"
                              /\ e.reg = 1
                              /\ e.data = << ExpectedWord(c) \div 256,
                                             ExpectedWord(c) % 256 >>
                         [] (i - 2) % 3 = 1 -> e.op = "sleep"
                         [] OTHER ->
                              /\ e.op = "read"
                              /\ e.reg = 0
                              /\ Len(e.data) = 2
        /\ Len(PortLog) <= 13
        /\ (pc = "done" /\ result.kind = "return") => Len(PortLog) = 13

C4_Witness ==
    /\ ReadDone
    /\ result.kind = "return"
    /\ Len(log) = 15
    /\ \A i \in DOMAIN log : log[i].res = "ok"

(* The log index of the configuration write that selects multiplexer       *)
(* channel c (multiplexer field, bits 14-12, equal to 4 + c).              *)
WritesSelecting(c) ==
    { i \in Entries("write") : (WordOf(i) \div 4096) % 8 = 4 + c }

(* C5: a read cycle that succeeds returns exactly four readings, and the   *)
(* reading at position c is decoded from the conversion read that followed *)
(* the one configuration write selecting multiplexer channel c.            *)
C5_FourReadingsInChannelOrder ==
    (ReadDone /\ result.kind = "return" /\ exists = "True"
              /\ FailedRegisterEntries = {}
              /\ \A i \in Entries("open") : log[i].res = "ok") =>
        /\ Len(result.list) = 4
        /\ \A c \in 0 .. 3 :
              /\ Cardinality(WritesSelecting(c)) = 1
              /\ \A w \in WritesSelecting(c) :
                    /\ w + 2 \in Entries("read")
                    /\ result.list[c + 1] =
                          Decoded(log[w + 2].data) * args.resolution

C5_Witness ==
    /\ ReadDone
    /\ Len(result.list) = 4
    /\ log[6].data = <<15, 255>>
    /\ log[9].data = <<127, 255>>
    /\ log[12].data = <<128, 0>>
    /\ log[15].data = <<15, 255>>

(* C6: the configuration word written for channel c is                     *)
(* 0x8000 | (0x4000 + c*0x1000) | 0x0200 | 0x0100 | 0x0080 | 0x0003; bit   *)
(* 15 is set, bits 11-9 are 0b001, bit 8 is 1, bits 7-5 are 0b100, bits    *)
(* 4-0 are 0b00011, and two words differ only in bits 14-12.               *)
C6_ConfigurationWord ==
    \A i \in Entries("write") :
        /\ ChannelOf(i) \in 0 .. 3
        /\ WordOf(i) = ExpectedWord(ChannelOf(i))
        /\ WordOf(i) \div 32768 = 1
        /\ (WordOf(i) \div 4096) % 8 = 4 + ChannelOf(i)
        /\ (WordOf(i) \div 512) % 8 = 1
        /\ (WordOf(i) \div 256) % 2 = 1
        /\ (WordOf(i) \div 32) % 8 = 4
        /\ WordOf(i) % 32 = 3
        /\ \A j \in Entries("write") :
              /\ WordOf(i) % 4096 = WordOf(j) % 4096
              /\ WordOf(i) \div 32768 = WordOf(j) \div 32768

C6_Witness == Cardinality(Entries("write")) = 4

(* C7 as stated: the configuration word written for channel 0 is 0xC3E3.   *)
C7_Channel0WordIsC3E3 ==
    \A i \in Entries("write") : ChannelOf(i) = 0 => WordOf(i) = 50147

(* C7, amended: the configuration word written for channel 0 is 0xC383.    *)
C7_Channel0WordIsC383 ==
    \A i \in Entries("write") : ChannelOf(i) = 0 => WordOf(i) = 50051

C7_Witness ==
    /\ pc = "ch_sleep"
    /\ k = 0
    /\ Cardinality(Entries("write")) = 1

(* C8: the sample decoded from the bytes (hi, lo) of the conversion        *)
(* register is v = hi*256 + lo when v < 32768 and v - 65536 otherwise, and *)
(* lies in -32768 .. 32767.                                                *)
C8_SignedDecoding ==
    (rx # <<>> /\ pc # "ch_decode") =>
        /\ value = (IF rx[1] * 256 + rx[2] < 32768
                    THEN rx[1] * 256 + rx[2]
                    ELSE rx[1] * 256 + rx[2] - 65536)
        /\ value \in -32768 .. 32767
        /\ (rx = <<127, 255>> => value = 32767)
        /\ (rx = <<128, 0>> => value = -32768)
        /\ (rx = <<255, 255>> => value = -1)

C8_Witness ==
    /\ pc # "ch_decode"
    /\ rx = <<255, 255>>
    /\ value = -1

(* C9: the presence check returns True when the quick write is             *)
(* acknowledged and False when it is not; it does not raise for an absent  *)
(* device.                                                                 *)
C9_ProbeIsBoolean ==
    (op = "check" /\ pc = "done") =>
        \A i \in Entries("quick") :
            /\ log[i].res = "ok" => result = ReturnBool(TRUE)
            /\ log[i].res = "OSError" => result = ReturnBool(FALSE)

C9_Witness ==
    /\ op = "check"
    /\ pc = "done"
    /\ \E i \in Entries("quick") : log[i].res = "OSError"
    /\ result = ReturnBool(FALSE)

(* C10: when the bus channel cannot be opened, read() fails with an error  *)
(* of its own kind, neither the device-not-found nor the read-failed one.  *)
C10_BusUnavailableIsDistinctError ==
    (ReadDone /\ log[1].op = "open" /\ log[1].res = "OSError") =>
        /\ result.kind = "raise"
        /\ result.exc \notin {"AdsNotFound", "AdsReadException"}
        /\ result.cause \notin {"AdsNotFound", "AdsReadException"}

(* ---------------------------- the bus scan ----------------------------- *)
ScanDone == op = "scan" /\ pc = "done"
BusOpened == Len(log) >= 1 /\ log[1].op = "open" /\ log[1].res = "ok"
ScanRange == FirstAddress .. (StopAddress - 1)

(* The addresses whose presence probe was acknowledged.                    *)
Acked == { log[i].addr : i \in { j \in Entries("quick") : log[j].res = "ok" } }

(* Every address of the range was probed and none acknowledged.            *)
NobodyAnswered ==
    /\ \A a \in ScanRange : \E i \in Entries("quick") : log[i].addr = a
    /\ \A i \in Entries("quick") : log[i].res = "OSError"

(* C11 as stated: when the bus opens and no address in [0x03, 0x77]        *)
(* acknowledges, the scan returns a sequence of length 0.                  *)
C11_EmptyScanReturnsEmptySequence ==
    (ScanDone /\ BusOpened /\ NobodyAnswered) => result = ReturnList(<<>>)

(* C11, amended: when the bus opens and no address in [0x03, 0x77]         *)
(* acknowledges, the scan returns None: it raises no error and returns no  *)
(* sequence.                                                               *)
C11_EmptyScanReturnsNone ==
    (ScanDone /\ BusOpened /\ \A i \in Entries("quick") : log[i].res = "OSError")
        => /\ result = ReturnNone
           /\ NobodyAnswered

C11_Witness ==
    /\ ScanDone
    /\ BusOpened
    /\ NobodyAnswered
    /\ result.kind = "return_None"

(* The returned list is strictly ascending, within [0x03, 0x77], and holds *)
(* exactly the acknowledged addresses.                                     *)
ListIsExactlyAcked ==
    /\ \A i, j \in DOMAIN result.list : i < j => result.list[i] < result.list[j]
    /\ \A i \in DOMAIN result.list : result.list[i] \in ScanRange
    /\ { result.list[i] : i \in DOMAIN result.list } = Acked

(* C12 as stated: for every set of responding addresses the scan returns a *)
(* sequence that is strictly ascending, within [0x03, 0x77], and holds     *)
(* exactly the acknowledged addresses.                                     *)
C12_ScanReturnsAscendingResponders ==
    (ScanDone /\ result.kind # "raise") =>
        /\ result.kind = "return"
        /\ ListIsExactlyAcked

(* C12, amended: for every non-empty set of responding addresses the scan  *)
(* that returns returns a sequence that is strictly ascending, within      *)
(* [0x03, 0x77], and holds exactly the acknowledged addresses; for the     *)
(* empty set it returns None.                                              *)
C12_ScanReturnsAscendingRespondersOrNone ==
    (ScanDone /\ result.kind # "raise") =>
        IF Acked = {}
        THEN result = ReturnNone
        ELSE /\ result.kind = "return"
             /\ Len(result.list) = Cardinality(Acked)
             /\ ListIsExactlyAcked

C12_Witness ==
    /\ ScanDone
    /\ result.kind = "return"
    /\ result.list = << FirstAddress, DefaultAddress, StopAddress - 1 >>

(* C13: once the bus is open the scan does not end in an error, whatever   *)
(* the failure of a presence probe, and every address of the range is      *)
(* still probed.                                                           *)
C13_ScanFailsOnlyWhenBusCannotOpen ==
    (ScanDone /\ BusOpened) =>
        /\ result.kind # "raise"
        /\ \A a \in ScanRange : \E i \in Entries("quick") : log[i].addr = a

(* C16: a scan on an openable bus issues exactly one presence probe at     *)
(* each address 0x03 .. 0x77, in ascending order, whatever the outcome of  *)
(* earlier probes, and no register write or read.                          *)
C16_ScanProbesEveryAddressOnce ==
    (op = "scan" /\ BusOpened) =>
        /\ \A i \in 2 .. Len(log) :
              /\ log[i].op = "quick"
              /\ log[i].addr = FirstAddress + (i - 2)
              /\ log[i].addr \in ScanRange
        /\ pc = "done" => Len(log) = 1 + Cardinality(ScanRange)

C15_NoRetryStopAtFirstFailure ==
    op = "read" =>
        /\ \A i \in FailedRegisterEntries : i = Len(log) /\ pc = "done"
        /\ \A c \in 0 .. 3 : Cardinality(WritesSelecting(c)) <= 1
        /\ \A i \in Entries("write") : (WordOf(i) \div 4096) % 8 \in 4 .. 7
        /\ \A i \in Entries("read") : (i - 2) \in Entries("write")
        /\ \A i \in Entries("write") : (i + 2) \in DOMAIN log => log[i + 2].op = "read"

C15_Witness ==
    /\ ReadDone
    /\ Len(log) = 9
    /\ log[9].op = "read"
    /\ log[9].res = "OSError"
    /\ result = ReturnList(<<>>)

(* C17: no step of a presence check or of a read cycle changes the         *)
(* address, resolution or bus channel of the instance.                     *)
C17_InstanceFieldsUnchanged == [][dev' = dev]_vars

C17_Witness ==
    /\ op = "check"
    /\ pc = "done"
    /\ probe.address # dev.address
    /\ probe.i2c_channel # dev.i2c_channel

====
